---- MODULE Spec2Model ----
(***************************************************************************)
(* ParameterLib (src/ParmeterLib.h, src/main.cpp): a typed option table    *)
(* over getopt_long(3).                                                    *)
(*                                                                         *)
(* Characters are one-character strings, C strings are sequences of        *)
(* characters, and argv is a function from 0..argc-1 to C strings, so that *)
(* every index of the model is the index the C++ code uses.                *)
(***************************************************************************)
EXTENDS Integers, Sequences, FiniteSets, TLC

(***************************************************************************)
(* Bounds of the model.                                                    *)
(***************************************************************************)
\* the largest number of command line arguments after the program name
MaxArgs == 3
\* the largest number of processOptions calls a caller makes on one argv
MaxCalls == 2

(***************************************************************************)
(* Characters.                                                             *)
(***************************************************************************)
\* the printable ASCII characters in code order, starting at the space (the
\* double quote, the backslash and the back quote, which no argument of the
\* model holds, are written as words)
Ascii ==
  << " ", "!", "dquote", "#", "$", "%", "&", "'", "(", ")", "*", "+", ",", "-",
     ".", "/", "0", "1", "2", "3", "4", "5", "6", "7", "8", "9", ":", ";",
     "<", "=", ">", "?", "@", "A", "B", "C", "D", "E", "F", "G", "H", "I",
     "J", "K", "L", "M", "N", "O", "P", "Q", "R", "S", "T", "U", "V", "W",
     "X", "Y", "Z", "[", "bslash", "]", "^", "_", "bquote", "a", "b", "c", "d", "e",
     "f", "g", "h", "i", "j", "k", "l", "m", "n", "o", "p", "q", "r", "s",
     "t", "u", "v", "w", "x", "y", "z", "{", "|", "}", "~" >>

\* the int value of a character literal
Ord(ch) == 31 + (CHOOSE k \in 1..Len(Ascii) : Ascii[k] = ch)

\* the character a char holds
Chr(n) == Ascii[n - 31]

\* (char)v: an int cut to the eight bits of a char
ToChar(v) == v % 256

Digits == << "0", "1", "2", "3", "4", "5", "6", "7", "8", "9" >>

IsDigit(ch) == \E k \in 1..10 : Digits[k] = ch

DigitVal(ch) == (CHOOSE k \in 1..10 : Digits[k] = ch) - 1

\* isspace, over the characters of Ascii
IsSpace(ch) == ch = " "

RECURSIVE SkipSpace(_)
SkipSpace(s) ==
  IF s # << >> /\ IsSpace(Head(s)) THEN SkipSpace(Tail(s)) ELSE s

\* the longest prefix of s made of digits
RECURSIVE DigitPrefix(_)
DigitPrefix(s) ==
  IF s # << >> /\ IsDigit(Head(s))
    THEN << Head(s) >> \o DigitPrefix(Tail(s))
    ELSE << >>

\* the number a sequence of digits writes in base 10
RECURSIVE DecimalValue(_)
DecimalValue(ds) ==
  IF ds = << >> THEN 0
  ELSE 10 * DecimalValue(SubSeq(ds, 1, Len(ds) - 1)) + DigitVal(ds[Len(ds)])

Drop(s, n) == SubSeq(s, n + 1, Len(s))

\* a char * : the null pointer, or a pointer to a C string
NullPtr == [null |-> TRUE, s |-> << >>]

Ptr(str) == [null |-> FALSE, s |-> str]

(***************************************************************************)
(* The typed conversion layer.                                             *)
(***************************************************************************)
\* the digits of INT_MAX and of -INT_MIN
IntMaxDigits == << "2", "1", "4", "7", "4", "8", "3", "6", "4", "7" >>

IntMinDigits == << "2", "1", "4", "7", "4", "8", "3", "6", "4", "8" >>

RECURSIVE StripZeros(_)
StripZeros(ds) ==
  IF Len(ds) > 1 /\ Head(ds) = "0" THEN StripZeros(Tail(ds)) ELSE ds

\* whether the number ds writes is greater than the one limit writes (both
\* without leading zeros), decided on the digits
RECURSIVE DigitsGreater(_, _)
DigitsGreater(ds, limit) ==
  IF Len(ds) # Len(limit) THEN Len(ds) > Len(limit)
  ELSE IF ds = << >> THEN FALSE
  ELSE IF Head(ds) # Head(limit) THEN DigitVal(Head(ds)) > DigitVal(Head(limit))
  ELSE DigitsGreater(Tail(ds), Tail(limit))

\* whether strtol's result for sign and digits leaves the range of int
OutOfIntRange(sign, ds) ==
  DigitsGreater(StripZeros(ds), IF sign < 0 THEN IntMinDigits ELSE IntMaxDigits)

\* a float, written m * 10^(-e) with no trailing zero in the fraction; the
\* rounding to a binary float is left out
RECURSIVE NormFloat(_, _)
NormFloat(m, e) ==
  IF m = 0 THEN [m |-> 0, e |-> 0]
  ELSE IF e > 0 /\ m % 10 = 0 THEN NormFloat(m \div 10, e - 1)
  ELSE [m |-> m, e |-> e]

\* converter<T>(): the default conversion value of type T
converterDefault(type) ==
  CASE type = "bool" -> TRUE
    [] type = "int" -> 0
    [] type = "float" -> NormFloat(0, 0)
    [] type = "string" -> << >>

\* a constructor that would start l_value at converter<T>()
ValueInitDefault(type) == converterDefault(type)

\* T{}: the value a value-initialised member of type T holds
ValueInit(type) ==
  CASE type = "bool" -> FALSE
    [] type = "int" -> 0
    [] type = "float" -> NormFloat(0, 0)
    [] type = "string" -> << >>

Value(v) == [kind |-> "value", value |-> v, type |-> "none", what |-> ""]

Throw(type, what) == [kind |-> "throw", value |-> 0, type |-> type, what |-> what]

\* the process ends without an exception a caller could catch
Crash == [kind |-> "crash", value |-> 0, type |-> "none", what |-> ""]

\* the sign and the text after it
SignOf(s) == IF s # << >> /\ Head(s) = "-" THEN -1 ELSE 1

AfterSign(s) == IF s # << >> /\ Head(s) \in {"-", "+"} THEN Tail(s) ELSE s

\* converter<T>(char *) of the primary template, which is what bool uses:
\* a null pointer gives converter<T>(); else T r; ss >> r; return r.  The
\* extraction leaves r untouched when the stream holds nothing but white
\* space, and r was never initialised: either value may come back.
converterGeneric(optarg) ==
  IF optarg.null THEN {Value(converterDefault("bool"))}
  ELSE LET body == SkipSpace(optarg.s)
           ds == DigitPrefix(AfterSign(body))
       IN  IF body = << >> THEN {Value(TRUE), Value(FALSE)}
           ELSE IF ds = << >> THEN {Value(FALSE)}
           ELSE IF SignOf(body) * DecimalValue(ds) = 0 THEN {Value(FALSE)}
           ELSE {Value(TRUE)}

\* converter<int>(char *): 0 for a null pointer, else std::stoi, which reads
\* white space, a sign and digits and ignores whatever follows the digits
converterInt(optarg) ==
  IF optarg.null THEN {Value(0)}
  ELSE LET body == SkipSpace(optarg.s)
           ds == DigitPrefix(AfterSign(body))
       IN  IF ds = << >> THEN {Throw("invalid_argument", "stoi")}
           ELSE IF OutOfIntRange(SignOf(body), ds) THEN {Throw("out_of_range", "stoi")}
           ELSE {Value(SignOf(body) * DecimalValue(ds))}

\* converter<float>(char *): 0 for a null pointer, else std::stof, which
\* reads white space, a sign, digits, a point and digits, and ignores the
\* rest (the exponent, hexadecimal, inf and nan forms are not written by
\* any argument of the model)
converterFloat(optarg) ==
  IF optarg.null THEN {Value(NormFloat(0, 0))}
  ELSE LET body == SkipSpace(optarg.s)
           unsigned == AfterSign(body)
           ip == DigitPrefix(unsigned)
           rest == Drop(unsigned, Len(ip))
           fp == IF rest # << >> /\ Head(rest) = "."
                   THEN DigitPrefix(Tail(rest)) ELSE << >>
       IN  IF ip = << >> /\ fp = << >> THEN {Throw("invalid_argument", "stof")}
           ELSE {Value(NormFloat(SignOf(body) * DecimalValue(ip \o fp), Len(fp)))}

\* converter<std::string>(char *): std::string(optarg) with no test for a
\* null pointer; constructing a string from one is undefined: libstdc++
\* throws std::logic_error, other builds read through the null pointer
converterString(optarg) ==
  IF optarg.null
    THEN {Throw("logic_error", "basic_string: construction from null is not valid"),
          Crash}
    ELSE {Value(optarg.s)}

\* parameter_t<T>::convert: the outcomes of converter<T>(optarg)
convert(type, optarg) ==
  CASE type = "bool" -> converterGeneric(optarg)
    [] type = "int" -> converterInt(optarg)
    [] type = "float" -> converterFloat(optarg)
    [] type = "string" -> converterString(optarg)

(***************************************************************************)
(* Option descriptors.                                                     *)
(***************************************************************************)
\* enum HasArg, with the values <getopt.h> gives no_argument,
\* required_argument and optional_argument
has_no_argument == 0

has_optional_argument == 2

has_requred_argument == 1

\* parameter_t<T>::parameter_t(name, has_arg, val): l_seen(0) and l_value()
parameter_t(type, name, has_arg, val) ==
  [type |-> type, l_name |-> name, l_has_arg |-> has_arg, l_val |-> val,
   l_flag |-> 0, l_seen |-> 0, l_incomplete_conv |-> FALSE,
   l_value |-> ValueInit(type)]

\* a std::vector of descriptors, indexed from 0
Vector(seq) == [i \in 0..(Len(seq) - 1) |-> seq[i + 1]]

Size(vec) == Cardinality(DOMAIN vec)

(***************************************************************************)
(* getopt_long(3) of the GNU C library, as processOptions calls it: the    *)
(* scanner state is the library's own (optind, optarg and the static       *)
(* getopt data), which no call of processOptions resets.                   *)
(***************************************************************************)
DashDash == << "-", "-" >>

\* the scanner state of a process that has not called getopt yet
getopt_data0 ==
  [optind |-> 1, optarg |-> NullPtr, initialized |-> FALSE, nextchar |-> << >>,
   ordering |-> "PERMUTE", first_nonopt |-> 0, last_nonopt |-> 0]

\* NONOPTION_P: argv[i] does not start with '-', or is "-" alone
NONOPTION_P(av, i) == Len(av[i]) < 2 \/ av[i][1] # "-"

RECURSIVE SkipNonOptions(_, _, _)
SkipNonOptions(av, argc, i) ==
  IF i < argc /\ NONOPTION_P(av, i) THEN SkipNonOptions(av, argc, i + 1) ELSE i

\* exchange: the non-options av[first..last-1] and the options
\* av[last..oi-1] after them change places, each block keeping its order
exchange(av, first, last, oi) ==
  [i \in DOMAIN av |->
     IF i < first \/ i >= oi THEN av[i]
     ELSE IF i < first + (oi - last) THEN av[last + (i - first)]
     ELSE av[first + (i - (first + (oi - last)))]]

\* _getopt_initialize: the first call fixes the ordering and the bounds of
\* the skipped non-options
getopt_initialize(d, optstring, posixly_correct) ==
  LET oi == IF d.optind = 0 THEN 1 ELSE d.optind
  IN  [d EXCEPT !.optind = oi, !.first_nonopt = oi, !.last_nonopt = oi,
                !.nextchar = << >>, !.initialized = TRUE,
                !.ordering =
                   IF optstring # << >> /\ optstring[1] = "-" THEN "RETURN_IN_ORDER"
                   ELSE IF optstring # << >> /\ optstring[1] = "+" THEN "REQUIRE_ORDER"
                   ELSE IF posixly_correct THEN "REQUIRE_ORDER"
                   ELSE "PERMUTE"]

\* the option string without a leading '-' or '+'
OptBody(optstring) ==
  IF optstring # << >> /\ optstring[1] \in {"-", "+"} THEN Tail(optstring)
  ELSE optstring

\* strchr(optstring, c): the first place of c, 0 when it is not there
StrChr(str, ch) ==
  IF \E k \in 1..Len(str) : str[k] = ch
    THEN CHOOSE k \in 1..Len(str) : str[k] = ch /\ \A j \in 1..(k - 1) : str[j] # ch
    ELSE 0

CharAt(str, k) == IF k >= 1 /\ k <= Len(str) THEN str[k] ELSE "NUL"

IsPrefix(p, str) == Len(p) <= Len(str) /\ SubSeq(str, 1, Len(p)) = p

\* the number of entries before the terminating one, whose name is null
RECURSIVE CountOptions(_, _)
CountOptions(longopts, i) ==
  IF longopts[i].name.null THEN i ELSE CountOptions(longopts, i + 1)

NoMatch == << -1, -1 >>

\* what one call of the scanner gives back: its return value c, the index it
\* wrote to *longind (-1: not written), the new scanner state and argument
\* vector, the message it printed, and for the record of the run the
\* arguments it used up, the place <<argument, offset>> of the option
\* character or name it matched, and whether it met the "--" argument
Scanned(c, longind, d, av, og, msg, used, at, dd) ==
  [c |-> c, longind |-> longind, d |-> d, argv |-> av, origin |-> og,
   msg |-> msg, used |-> used, at |-> at, dashdash |-> dd]

\* the part of the scan that moves to the next argv element
Advance(argc, av, og, d) ==
  LET oi == d.optind
      last1 == IF d.last_nonopt > oi THEN oi ELSE d.last_nonopt
      first1 == IF d.first_nonopt > oi THEN oi ELSE d.first_nonopt
      permute == d.ordering = "PERMUTE"
      exch1 == permute /\ first1 # last1 /\ last1 # oi
      av2 == IF exch1 THEN exchange(av, first1, last1, oi) ELSE av
      og2 == IF exch1 THEN exchange(og, first1, last1, oi) ELSE og
      first2 == IF exch1 THEN first1 + (oi - last1)
                ELSE IF permute /\ last1 # oi THEN oi
                ELSE first1
      oi3 == IF permute THEN SkipNonOptions(av2, argc, oi) ELSE oi
      last3 == IF permute THEN oi3 ELSE last1
      dd == oi3 # argc /\ av2[oi3] = DashDash
      oi4 == oi3 + 1
      exch2 == dd /\ first2 # last3 /\ last3 # oi4
      av5 == IF exch2 THEN exchange(av2, first2, last3, oi4) ELSE av2
      og5 == IF exch2 THEN exchange(og2, first2, last3, oi4) ELSE og2
      first5 == IF exch2 THEN first2 + (oi4 - last3)
                ELSE IF dd /\ first2 = last3 THEN oi4
                ELSE first2
  IN  [argv |-> av5, origin |-> og5,
       d |-> [d EXCEPT !.optind = IF dd THEN argc ELSE oi3,
                       !.first_nonopt = first5,
                       !.last_nonopt = IF dd THEN argc ELSE last3],
       dashdash |-> dd,
       used |-> IF dd THEN {og2[oi3]} ELSE {}]

\* process_long_option, with d.nextchar just after the "--"
process_long_option(argc, av, og, optstring, longopts, d, used, dd) ==
  LET nc == d.nextchar
      eq == StrChr(nc, "=")
      namelen == IF eq = 0 THEN Len(nc) ELSE eq - 1
      name == SubSeq(nc, 1, namelen)
      n == CountOptions(longopts, 0)
      exact == {i \in 0..(n - 1) : longopts[i].name.s = name}
      abbrev == {i \in 0..(n - 1) : IsPrefix(name, longopts[i].name.s)}
      firstOf(S) == CHOOSE i \in S : \A j \in S : i <= j
      ind == IF exact # {} THEN firstOf(exact)
             ELSE IF abbrev # {} THEN firstOf(abbrev)
             ELSE -1
      ambiguous == exact = {} /\ abbrev # {}
                   /\ \E j \in abbrev :
                        \/ longopts[j].has_arg # longopts[ind].has_arg
                        \/ longopts[j].flag # longopts[ind].flag
                        \/ longopts[j].val # longopts[ind].val
      here == og[d.optind]
      oi1 == d.optind + 1
      d1 == [d EXCEPT !.optind = oi1, !.nextchar = << >>]
  IN  IF ambiguous
        THEN Scanned(Ord("?"), -1, d1, av, og, "ambiguous option",
                     used \cup {here}, NoMatch, dd)
      ELSE IF ind = -1
        THEN Scanned(Ord("?"), -1, d1, av, og, "unrecognized option",
                     used \cup {here}, NoMatch, dd)
      ELSE IF eq # 0
        THEN IF longopts[ind].has_arg # 0
               THEN Scanned(longopts[ind].val, ind,
                            [d1 EXCEPT !.optarg = Ptr(Drop(nc, eq))], av, og,
                            "", used \cup {here}, << here, 2 >>, dd)
               ELSE Scanned(Ord("?"), -1, d1, av, og,
                            "option does not allow an argument",
                            used \cup {here}, NoMatch, dd)
      ELSE IF longopts[ind].has_arg = 1
        THEN IF oi1 < argc
               THEN Scanned(longopts[ind].val, ind,
                            [d1 EXCEPT !.optarg = Ptr(av[oi1]), !.optind = oi1 + 1],
                            av, og, "", used \cup {here, og[oi1]},
                            << here, 2 >>, dd)
               ELSE Scanned(IF CharAt(optstring, 1) = ":" THEN Ord(":") ELSE Ord("?"),
                            -1, d1, av, og, "option requires an argument",
                            used \cup {here}, NoMatch, dd)
      ELSE Scanned(longopts[ind].val, ind, d1, av, og, "",
                   used \cup {here}, << here, 2 >>, dd)

\* the part of the scan that handles the next short option character
short_option(argc, av, og, optstring, d, used, dd) ==
  LET ch == Head(d.nextchar)
      nc == Tail(d.nextchar)
      here == og[d.optind]
      at == << here, Len(av[d.optind]) - Len(d.nextchar) >>
      oi1 == IF nc = << >> THEN d.optind + 1 ELSE d.optind
      temp == StrChr(optstring, ch)
      d1 == [d EXCEPT !.optind = oi1, !.nextchar = nc]
      done == IF nc = << >> THEN {here} ELSE {}
  IN  IF temp = 0 \/ ch = ":" \/ ch = ";"
        THEN Scanned(Ord("?"), -1, d1, av, og, "invalid option",
                     used \cup done, NoMatch, dd)
      ELSE IF CharAt(optstring, temp + 1) = ":"
        THEN IF CharAt(optstring, temp + 2) = ":"
               THEN \* an argument is optional: only the rest of this element
                    IF nc # << >>
                      THEN Scanned(Ord(ch), -1,
                                   [d1 EXCEPT !.optarg = Ptr(nc), !.optind = oi1 + 1,
                                              !.nextchar = << >>],
                                   av, og, "", used \cup {here}, at, dd)
                      ELSE Scanned(Ord(ch), -1, [d1 EXCEPT !.nextchar = << >>],
                                   av, og, "", used \cup {here}, at, dd)
               ELSE \* an argument is required: the rest, or the next element
                    IF nc # << >>
                      THEN Scanned(Ord(ch), -1,
                                   [d1 EXCEPT !.optarg = Ptr(nc), !.optind = oi1 + 1,
                                              !.nextchar = << >>],
                                   av, og, "", used \cup {here}, at, dd)
                    ELSE IF oi1 = argc
                      THEN Scanned(IF CharAt(optstring, 1) = ":"
                                     THEN Ord(":") ELSE Ord("?"),
                                   -1, [d1 EXCEPT !.nextchar = << >>], av, og,
                                   "option requires an argument",
                                   used \cup {here}, NoMatch, dd)
                    ELSE Scanned(Ord(ch), -1,
                                 [d1 EXCEPT !.optarg = Ptr(av[oi1]),
                                            !.optind = oi1 + 1, !.nextchar = << >>],
                                 av, og, "", used \cup {here, og[oi1]}, at, dd)
      ELSE Scanned(Ord(ch), -1, d1, av, og, "", used \cup done, at, dd)

\* the scan of the argv element the scanner has moved to
NextElement(argc, optstring, longopts, a) ==
  LET oi == a.d.optind
  IN  IF oi = argc
        THEN Scanned(-1, -1,
                     [a.d EXCEPT !.optind =
                        IF a.d.first_nonopt # a.d.last_nonopt
                          THEN a.d.first_nonopt ELSE oi],
                     a.argv, a.origin, "", a.used, NoMatch, a.dashdash)
      ELSE IF NONOPTION_P(a.argv, oi)
        THEN IF a.d.ordering = "REQUIRE_ORDER"
               THEN Scanned(-1, -1, a.d, a.argv, a.origin, "", a.used,
                            NoMatch, a.dashdash)
               ELSE Scanned(1, -1,
                            [a.d EXCEPT !.optarg = Ptr(a.argv[oi]),
                                        !.optind = oi + 1],
                            a.argv, a.origin, "", a.used \cup {a.origin[oi]},
                            NoMatch, a.dashdash)
      ELSE IF a.argv[oi][2] = "-"
        THEN process_long_option(argc, a.argv, a.origin, optstring, longopts,
                                 [a.d EXCEPT !.nextchar = Drop(a.argv[oi], 2)],
                                 a.used, a.dashdash)
      ELSE short_option(argc, a.argv, a.origin, optstring,
                        [a.d EXCEPT !.nextchar = Drop(a.argv[oi], 1)],
                        a.used, a.dashdash)

\* the scanner state once a first call has initialised it and optarg is reset
Entered(d0, optstring0, posixly_correct) ==
  [(IF d0.optind = 0 \/ ~d0.initialized
      THEN getopt_initialize(d0, optstring0, posixly_correct)
      ELSE d0) EXCEPT !.optarg = NullPtr]

\* getopt_long(argc, argv, optstring, longopts, &longind)
getopt_long(argc, av, og, optstring0, longopts, d0, posixly_correct) ==
  IF argc < 1 THEN Scanned(-1, -1, d0, av, og, "", {}, NoMatch, FALSE)
  ELSE IF d0.initialized /\ d0.optind # 0 /\ d0.nextchar # << >>
    THEN short_option(argc, av, og, OptBody(optstring0),
                      [d0 EXCEPT !.optarg = NullPtr], {}, FALSE)
  ELSE NextElement(argc, OptBody(optstring0), longopts,
                   Advance(argc, av, og, Entered(d0, optstring0, posixly_correct)))

(***************************************************************************)
(* The command lines and option tables the model runs.                     *)
(***************************************************************************)
Enable == << "e", "n", "a", "b", "l", "e" >>

Start == << "s", "t", "a", "r", "t" >>

Pi == << "p", "i" >>

File == << "f", "i", "l", "e" >>

Help == << "h", "e", "l", "p" >>

Opt == << "o", "p", "t" >>

Prog == << "p", "r", "o", "g" >>

\* the table of main.cpp
parameter ==
  Vector(<< parameter_t("bool", Enable, has_no_argument, Ord("e")),
            parameter_t("int", Start, has_requred_argument, Ord("s")),
            parameter_t("float", Pi, has_requred_argument, Ord("p")),
            parameter_t("string", File, has_requred_argument, Ord("f")) >>)

\* a help flag spelled -? and an integer whose argument is optional
HelpTable ==
  Vector(<< parameter_t("bool", Help, has_no_argument, Ord("?")),
            parameter_t("int", Opt, has_optional_argument, Ord("o")) >>)

\* a string that takes no argument, a float whose argument is optional and
\* a bool that requires one
MixedTable ==
  Vector(<< parameter_t("string", File, has_no_argument, Ord("f")),
            parameter_t("float", Pi, has_optional_argument, Ord("p")),
            parameter_t("bool", Enable, has_requred_argument, Ord("e")) >>)

\* each table with the arguments its command lines are made of
Scenarios ==
  { [table |-> parameter,
     words |-> { << "-", "e" >>, << "-", "-", "s", "t", "a", "r", "t" >>,
                 << "-", "-", "p", "=", "3", ".", "5" >>, << "-", "f", "x" >>,
                 << "-", "e", "s" >>, DashDash, << "7" >>, << "7", "x" >>,
                 << "x" >>, << "-", "-", "b", "o", "g", "u", "s" >> }],
    [table |-> HelpTable,
     words |-> { << "-", "?" >>, << "-", "o" >>, << "-", "-", "o", "p", "t" >>,
                 << "-", "-", "o", "p", "t", "=", "7" >>, << "7" >>,
                 << "-", "-", "b", "o", "g", "u", "s" >>, DashDash,
                 << "-", "x" >> }],
    [table |-> MixedTable,
     words |-> { << "-", "f" >>, << "-", "-", "f", "i", "l", "e" >>,
                 << "-", "-", "p", "i" >>, << "-", "p", "3", ".", "5" >>,
                 << "-", "e" >>, << "1" >>, << >>, DashDash }] }

\* the argument vectors of n arguments after the program name
ArgVectors(words, n) ==
  { [i \in 0..n |-> IF i = 0 THEN Prog ELSE w[i]] : w \in [1..n -> words] }

(***************************************************************************)
(* processOptions.                                                         *)
(***************************************************************************)
VARIABLES
  parameters,      \* std::vector<p_parameter_t> &parameters
  argc,            \* int argc
  argv,            \* char **argv, which the scanner permutes
  posixly_correct, \* whether the environment sets POSIXLY_CORRECT
  getopt_data,     \* the scanner's state, kept by the C library between calls
  pc,              \* "idle": no call runs, "loop": in the while loop,
                   \* "terminated": the process has ended
  result,          \* options_result_t result
  options,         \* struct option options[parameters.size()+1]
  small_opts,      \* char small_opts[parameters.size()]
  ss,              \* the std::stringstream of the short option string
  c,               \* int c
  option_index,    \* int option_index
  thrown,          \* the exception the last call left by, if it did
  hist             \* the record of the run the properties are about

vars ==
  << parameters, argc, argv, posixly_correct, getopt_data, pc, result, options,
     small_opts, ss, c, option_index, thrown, hist >>

Nothing == [type |-> "none", what |-> ""]

nullptr == NullPtr

\* the short option string, lines 205 to 207: the short code, and one ':'
\* when the option takes an argument, required or optional
RECURSIVE ShortOptionSpec(_, _)
ShortOptionSpec(params, i) ==
  IF i >= Size(params) THEN << >>
  ELSE << Chr(ToChar(params[i].l_val)) >>
       \o (IF params[i].l_has_arg # has_no_argument THEN << ":" >> ELSE << >>)
       \o ShortOptionSpec(params, i + 1)

\* the array handed to getopt_long, lines 199 to 202 and 213 to 216
OptionArray(params) ==
  [i \in 0..Size(params) |->
     IF i < Size(params)
       THEN [name |-> Ptr(params[i].l_name), has_arg |-> params[i].l_has_arg,
             flag |-> nullptr, val |-> params[i].l_val]
       ELSE [name |-> nullptr, has_arg |-> 0, flag |-> nullptr, val |-> 0]]

\* the map of short option values back into parameters, line 203
SmallOpts(params) == [i \in DOMAIN params |-> ToChar(params[i].l_val)]

\* std::find(so_begin, so_end, (char)c) - so_begin; the size when not found
Find(so, ch) ==
  IF \E i \in DOMAIN so : so[i] = ch
    THEN CHOOSE i \in DOMAIN so : so[i] = ch /\ \A j \in DOMAIN so : so[j] = ch => i <= j
    ELSE Size(so)

\* a processOptions that would restart the scanner on every call
EntryStateReset(d) == getopt_data0

\* the scanner state a call starts from: processOptions assigns nothing to
\* optind before its loop, so it is the state the call before left
EntryState(d) == d

\* a processOptions that would leave result.second as line 183 set it
ResidualIndexArgc(cursor, count) == count

\* result.second when the scanner reports the end: optind
ResidualIndex(cursor, count) == cursor

\* the text handed to convert, lines 263 to 267
ConvertArgument(has_arg, optarg) ==
  IF has_arg # has_no_argument THEN optarg ELSE nullptr

\* the descriptor a known option is routed to, lines 238 to 246
Resolve(index, so, key) ==
  IF index = Size(so) THEN Find(so, ToChar(key)) ELSE index

Init ==
  /\ \E sc \in Scenarios : \E n \in 0..MaxArgs :
       /\ parameters = sc.table
       /\ argc = n + 1
       /\ argv \in ArgVectors(sc.words, n)
  /\ posixly_correct \in BOOLEAN
  /\ getopt_data = getopt_data0
  /\ pc = "idle"
  /\ result = [first |-> "NoMoreArgs", second |-> 0]
  /\ options = << >>
  /\ small_opts = << >>
  /\ ss = << >>
  /\ c = 0
  /\ option_index = 0
  /\ thrown = Nothing
  /\ hist = [calls |-> 0, outcome |-> "none", prevOk |-> TRUE,
             startCursor |-> 1, origin |-> [i \in 0..(argc - 1) |-> i],
             used |-> {}, dashdash |-> FALSE, msg |-> "",
             matchLog |-> << >>,
             spelled |-> [i \in DOMAIN parameters |-> 0],
             attached |-> [i \in DOMAIN parameters |-> nullptr],
             stored |-> [i \in DOMAIN parameters |-> 0],
             entry |-> parameters, entrySpelled |-> [i \in DOMAIN parameters |-> 0],
             passes |-> 0, before |-> parameters, visited |-> -1,
             text |-> nullptr]

\* lines 183 to 216: the return value and the tables for getopt_long
Begin ==
  /\ pc = "idle"
  /\ hist.calls < MaxCalls
  /\ result' = [first |-> "NoMoreArgs", second |-> argc]
  /\ options' = OptionArray(parameters)
  /\ small_opts' = SmallOpts(parameters)
  /\ ss' = ShortOptionSpec(parameters, 0)
  /\ getopt_data' = EntryState(getopt_data)
  /\ thrown' = Nothing
  /\ pc' = "loop"
  /\ hist' = [hist EXCEPT !.calls = @ + 1, !.outcome = "running",
                          !.prevOk = hist.outcome \in {"none", "returned"},
                          !.startCursor = getopt_data.optind,
                          !.dashdash = FALSE, !.msg = "",
                          !.entry = parameters, !.entrySpelled = hist.spelled,
                          !.passes = 0, !.before = parameters, !.visited = -1,
                          !.text = nullptr]
  /\ UNCHANGED << parameters, argc, argv, posixly_correct, c, option_index >>

\* the descriptor the scanner's match spells: the one it found by name, or
\* the one whose short code is the character it returned
SpelledBy(params, r) ==
  IF r.at = NoMatch THEN -1
  ELSE IF r.longind # -1 THEN r.longind
  ELSE CHOOSE i \in DOMAIN params : ToChar(params[i].l_val) = r.c

\* the record of the run after the scanner's answer r
Recorded(h, sp, r) ==
  [h EXCEPT !.passes = @ + 1, !.before = parameters, !.visited = -1,
            !.text = nullptr,
            !.origin = r.origin, !.used = @ \cup r.used,
            !.dashdash = @ \/ r.dashdash, !.msg = r.msg,
            !.matchLog = IF r.at # NoMatch THEN Append(@, r.at) ELSE @,
            !.spelled = IF r.at # NoMatch THEN [@ EXCEPT ![sp] = @ + 1] ELSE @,
            !.attached = IF r.at # NoMatch THEN [@ EXCEPT ![sp] = r.d.optarg] ELSE @]

\* the values a pass of the loop leaves when it only goes on to the next
Pass(r, h, index) ==
  [params |-> parameters, pc |-> "loop", result |-> result, thrown |-> Nothing,
   index |-> index, hist |-> h, c |-> r.c, argv |-> r.argv, d |-> r.d]

\* lines 261 to 268: ++l_seen, then the conversion, whose exception leaves
\* the call and whose value is stored
Visit(base, k, seen, text) ==
  { CASE o.kind = "value" ->
           [base EXCEPT !.index = k,
                        !.params = [seen EXCEPT ![k].l_value = o.value],
                        !.hist.stored[k] = @ + 1,
                        !.hist.visited = k, !.hist.text = text]
      [] o.kind = "throw" ->
           [base EXCEPT !.index = k, !.params = seen, !.pc = "idle",
                        !.thrown = [type |-> o.type, what |-> o.what],
                        !.hist.outcome = "threw",
                        !.hist.visited = k, !.hist.text = text]
      [] o.kind = "crash" ->
           [base EXCEPT !.index = k, !.params = seen, !.pc = "terminated",
                        !.hist.outcome = "crashed",
                        !.hist.visited = k, !.hist.text = text]
    : o \in convert(seen[k].type, text) }

\* lines 236 to 269: a known option, routed to descriptor k
Known(base, k, optarg) ==
  IF k = Size(parameters)
    THEN {[base EXCEPT !.pc = "idle",
                       !.thrown = [type |-> "invalid_argument",
                                   what |-> "getopt_long returned short option"],
                       !.hist.outcome = "threw"]}
    ELSE Visit(base, k, [parameters EXCEPT ![k].l_seen = @ + 1],
               ConvertArgument(parameters[k].l_has_arg, optarg))

\* one pass of the while loop, lines 221 to 273, on the scanner's answer r:
\* every way it can end, as the new values of the variables it writes
LoopBody(r, base) ==
  IF r.c = -1
    THEN {[base EXCEPT !.pc = "idle",
                       !.result = [first |-> "NoMoreArgs",
                                   second |-> ResidualIndex(r.d.optind, argc)],
                       !.hist.outcome = "returned"]}
  ELSE IF r.c > 0
    THEN Known(base, Resolve(base.index, small_opts, r.c), r.d.optarg)
  ELSE {[base EXCEPT !.pc = "idle",
                     !.thrown = [type |-> "logic_error",
                                 what |-> "This implementation should not set 'flag'."],
                     !.hist.outcome = "threw"]}

\* the pass of the loop on the scanner's answer r: option_index starts at
\* the size of parameters and the scanner overwrites it for a long option
OnScan(r) ==
  LoopBody(r, Pass(r, Recorded(hist, SpelledBy(parameters, r), r),
                   IF r.longind # -1 THEN r.longind ELSE Size(parameters)))

Iterate ==
  /\ pc = "loop"
  /\ \E n \in OnScan(getopt_long(argc, argv, hist.origin, ss, options,
                                   getopt_data, posixly_correct)) :
       /\ c' = n.c
       /\ argv' = n.argv
       /\ getopt_data' = n.d
       /\ parameters' = n.params
       /\ pc' = n.pc
       /\ result' = n.result
       /\ thrown' = n.thrown
       /\ option_index' = n.index
       /\ hist' = n.hist
  /\ UNCHANGED << argc, posixly_correct, options, small_opts, ss >>

Next == Begin \/ Iterate

Spec == Init /\ [][Next]_vars

(***************************************************************************)
(* The properties.                                                         *)
(***************************************************************************)
Returned == pc = "idle" /\ hist.outcome = "returned"

Threw == pc = "idle" /\ hist.outcome = "threw"

\* the scanner's messages for an argument that has option syntax and is not
\* in the table
UnrecognizedMessages == {"unrecognized option", "invalid option"}

\* the exception of lines 248 to 253
InternalInconsistency ==
  [type |-> "invalid_argument", what |-> "getopt_long returned short option"]

\* the values of defaultValue<T>(): true, zero, zero, the empty string
HoldsDefault(p) ==
  CASE p.type = "bool" -> p.l_value = TRUE
    [] p.type = "int" -> p.l_value = 0
    [] p.type = "float" -> p.l_value = [m |-> 0, e |-> 0]
    [] p.type = "string" -> p.l_value = << >>

\* the values of T{}: false, zero, zero, the empty string
HoldsValueInit(p) ==
  CASE p.type = "bool" -> p.l_value = FALSE
    [] p.type = "int" -> p.l_value = 0
    [] p.type = "float" -> p.l_value = [m |-> 0, e |-> 0]
    [] p.type = "string" -> p.l_value = << >>

\* a base 10 integer and nothing else: an optional sign, then digits only
WellFormedInt(str) ==
  /\ AfterSign(str) # << >>
  /\ DigitPrefix(AfterSign(str)) = AfterSign(str)

\* the matches of descriptor i the scanner reported in the current call
SpelledInCall(i) == hist.spelled[i] - hist.entrySpelled[i]

\* descriptor i holds what the matches of this call, and nothing else, made
CountsTheMatches(i) ==
  /\ parameters[i].l_seen = hist.entry[i].l_seen + SpelledInCall(i)
  /\ SpelledInCall(i) = 0 => parameters[i].l_value = hist.entry[i].l_value

\* C1: converting an absent token gives defaultValue<T>() for every type and
\* does not fail: after a visit that handed no text to convert, the call has
\* not failed and the descriptor holds true, zero or the empty string.
C1_DefaultContract ==
  (hist.visited # -1 /\ hist.text.null)
    => /\ hist.outcome \notin {"threw", "crashed"}
       /\ HoldsDefault(parameters[hist.visited])

\* C2: an argument with option syntax that the table does not declare makes
\* the call fail with the error of lines 248 to 253, is not counted as a
\* match, and leaves every descriptor as the earlier matches of the call
\* made it.
C2_UnrecognizedOption ==
  (hist.passes > 0 /\ hist.msg \in UnrecognizedMessages)
    => /\ Threw
       /\ thrown = InternalInconsistency
       /\ \A i \in DOMAIN parameters : CountsTheMatches(i)

\* C3: for an int descriptor that takes an argument, text that is not a well
\* formed base 10 integer makes the call fail with the conversion error and
\* stores no value.
C3_MalformedValue ==
  (/\ hist.visited # -1
   /\ parameters[hist.visited].type = "int"
   /\ parameters[hist.visited].l_has_arg # has_no_argument
   /\ ~hist.text.null
   /\ ~WellFormedInt(hist.text.s))
    => /\ Threw
       /\ thrown.what = "stoi"
       /\ parameters[hist.visited].l_value = hist.before[hist.visited].l_value

\* C4: after a call that returns, each descriptor's l_seen has grown by the
\* number of matches of it the scanner reported, its l_value is the
\* conversion of the text of the last of them, and a descriptor with no
\* match keeps l_seen and l_value.
C4_TypedOptions ==
  Returned =>
    \A i \in DOMAIN parameters :
      /\ CountsTheMatches(i)
      /\ SpelledInCall(i) > 0 =>
           \E o \in convert(parameters[i].type,
                            ConvertArgument(parameters[i].l_has_arg, hist.attached[i])) :
             o.kind = "value" /\ o.value = parameters[i].l_value

\* the arguments at and after index k are the ones no call has used up, in
\* the order the command line gave them
ResidualFrom(k) ==
  /\ {hist.origin[i] : i \in k..(argc - 1)} = (1..(argc - 1)) \ hist.used
  /\ \A i, j \in k..(argc - 1) : i < j => hist.origin[i] < hist.origin[j]

\* C5: a call that returns gives (NoMoreArgs, i) with i the scanner's cursor,
\* i <= argc, and argv[i..argc-1] exactly the residual arguments; a "--" the
\* scanner met is used up and is the argument right before i.
C5_ResidualIndex ==
  Returned =>
    /\ result.first = "NoMoreArgs"
    /\ result.second = getopt_data.optind
    /\ result.second >= 1 /\ result.second <= argc
    /\ ResidualFrom(result.second)
    /\ hist.dashdash =>
         /\ result.second >= 2
         /\ argv[result.second - 1] = DashDash
         /\ hist.origin[result.second - 1] \in hist.used

\* a call that met "--" after an option returns with arguments left over
C5_Witness ==
  /\ Returned
  /\ hist.dashdash
  /\ hist.matchLog # << >>
  /\ result.second < argc

\* no place of the command line is matched as an option twice
NoRematch ==
  \A i, j \in 1..Len(hist.matchLog) : i # j => hist.matchLog[i] # hist.matchLog[j]

\* a call starts at the cursor the call before left
StartsWhereLeft ==
  (pc = "loop" /\ hist.passes = 0) => getopt_data.optind = hist.startCursor

\* C6, as stated: a later call starts at the cursor the call before left,
\* the cursor a call leaves is never lower than the cursor it started from,
\* and no option is matched twice.
C6_CursorNeverDecreases ==
  /\ StartsWhereLeft
  /\ NoRematch
  /\ (pc = "idle" /\ hist.calls > 0) => getopt_data.optind >= hist.startCursor

\* C6, amended: a later call starts at the cursor the call before left and
\* no option is matched twice; the cursor a call leaves is never lower than
\* the cursor it started from when the call before returned without error.
C6_CursorResumption ==
  /\ StartsWhereLeft
  /\ NoRematch
  /\ (pc = "idle" /\ hist.calls > 0 /\ hist.prevOk)
       => getopt_data.optind >= hist.startCursor

\* a second call, after a first that returned, went on from its cursor and
\* matched an option
C6_Witness ==
  /\ pc = "idle"
  /\ hist.calls = 2
  /\ hist.prevOk
  /\ hist.matchLog # << >>
  /\ getopt_data.optind > hist.startCursor

\* C7: a failure on an unrecognized option of the command line does not have
\* the error kind of the internal inconsistency failure.
C7_InternalInconsistencyDistinct ==
  (Threw /\ hist.msg \in UnrecognizedMessages)
    => thrown.type # InternalInconsistency.type

\* C8: l_seen is the number of matches whose value was converted and stored.
C8_OccurrenceCount ==
  \A i \in DOMAIN parameters : parameters[i].l_seen = hist.stored[i]

\* C9, as stated: a descriptor that was never matched holds
\* defaultValue<T>(), which is true for bool.
C9_InitialValueIsDefault ==
  \A i \in DOMAIN parameters :
    parameters[i].l_seen = 0 => HoldsDefault(parameters[i])

\* C9, amended: a descriptor that was never matched holds the value its
\* constructor gave it, which is T{}: false for bool, the empty string, zero.
C9_InitialValue ==
  \A i \in DOMAIN parameters :
    parameters[i].l_seen = 0 => HoldsValueInit(parameters[i])

\* a bool descriptor is still unmatched after a call that matched another
C9_Witness ==
  /\ hist.calls > 0
  /\ pc = "idle"
  /\ \E i, j \in DOMAIN parameters :
       /\ parameters[i].type = "bool" /\ parameters[i].l_seen = 0
       /\ parameters[j].l_seen > 0

\* the short option string with no colon for no argument, one for a
\* required and two for an optional argument
RECURSIVE ColonsByPolicy(_, _)
ColonsByPolicy(params, i) ==
  IF i >= Size(params) THEN << >>
  ELSE << Chr(ToChar(params[i].l_val)) >>
       \o (CASE params[i].l_has_arg = has_no_argument -> << >>
             [] params[i].l_has_arg = has_requred_argument -> << ":" >>
             [] params[i].l_has_arg = has_optional_argument -> << ":", ":" >>)
       \o ColonsByPolicy(params, i + 1)

\* C10: the short option string holds, per descriptor in order, the short
\* code and no colon, one colon (required) or two colons (optional).
C10_ShortOptionSpec ==
  hist.calls > 0 => ss = ColonsByPolicy(parameters, 0)

====
